---- MODULE Spec2Model ----
(***************************************************************************)
(* distructions: a terminal menu of project commands.                      *)
(*                                                                         *)
(* The repository holds two variants of the program: src/main.go, whose    *)
(* loadConfig generates the catalog without asking ("plain"), and          *)
(* src/unnamed/part_000, whose loadConfig first checks for .git and asks   *)
(* the user before generating ("prompt").  Detection, persistence and the  *)
(* Update/View state machine are the same code in both.                    *)
(*                                                                         *)
(* Go indexes Commands from 0; the sequences below are indexed from 1, so  *)
(* Commands[cursor] of the code is Commands[cursor + 1] here.              *)
(***************************************************************************)
EXTENDS Integers, Sequences, FiniteSets, Bags, TLC

VARIABLES
    variant,     \* "plain" (src/main.go) or "prompt" (src/unnamed/part_000)
    dir,         \* the working directory's marker files, .git and the repository name
    orig,        \* .project-commands.json as it was when the program started
    persisted,   \* .project-commands.json as it is now
    m,           \* the Model value held by the Bubble Tea runtime
    pc,          \* "start", "running", "exec", "returned", "exited"
    log,         \* the file-system probes, prompts and detector calls made by loadConfig
    generated,   \* the Config that Generate built in this run (the zero Config if it built none)
    answer,      \* the line read at the prompt (<<>> if the user was not asked)
    last,        \* the last message handled by Update, the cursor before it, the tea.Cmd returned
    pending,     \* the bag of commands Update returned whose messages have not reached the event loop
    children,    \* the child processes started by tea.ExecProcess that have not exited
    childStatus, \* exit status of the last child that exited (-1: none yet)
    runErr,      \* the error returned by p.Run()
    exitStatus,  \* the process's exit status (-1: still running)
    stdout       \* what main printed outside the TUI

vars == <<variant, dir, orig, persisted, m, pc, log, generated, answer, last, pending, children,
          childStatus, runErr, exitStatus, stdout>>

-----------------------------------------------------------------------------
(* Bounds of the model *)

\* longest command list of a persisted catalog file present at start
MaxDocLen == 2
\* most scripts in package.json
MaxScripts == 2
\* most services in a compose file
MaxServices == 2
\* most run requests returned by Update and not yet carried out
MaxPending == 1

-----------------------------------------------------------------------------
(* Data model *)

NoErr == ""

Command(n, c, d) == [Name |-> n, Command |-> c, Description |-> d]

\* Config{}: the zero value
ZeroConfig == [ProjectName |-> "", Commands |-> <<>>]

\* Model{}: the zero value (the map `selected` is never read or written
\* after construction and is left out)
ZeroModel == [config |-> ZeroConfig, cursor |-> 0, quitting |-> FALSE, err |-> NoErr]

-----------------------------------------------------------------------------
(* encoding/json as used on Config: a file's JSON text is modelled by the  *)
(* document it denotes.  A value of a string field is either a JSON string *)
(* or a JSON value of another type (a number), which Unmarshal cannot      *)
(* store in a Go string.                                                   *)

JString(s) == [t |-> "string", s |-> s]
JNumber == [t |-> "number", s |-> "0"]

\* Go strings hold arbitrary bytes; Marshal coerces a string to valid UTF-8,
\* replacing each invalid byte by U+FFFD.  "caf<e9>" stands for the bytes
\* 63 61 66 e9 (Latin-1, not UTF-8), "caf<fffd>" for its coerced form.
CoerceUTF8(s) == IF s = "caf<e9>" THEN "caf<fffd>" ELSE s

MarshalCommand(c) ==
    [name |-> JString(CoerceUTF8(c.Name)),
     command |-> JString(CoerceUTF8(c.Command)),
     description |-> JString(CoerceUTF8(c.Description))]

\* json.MarshalIndent(config, "", "    "): never fails on a Config
MarshalIndent(config) ==
    [projectName |-> JString(CoerceUTF8(config.ProjectName)),
     commands |-> [i \in 1..Len(config.Commands) |-> MarshalCommand(config.Commands[i])]]

EmptyDoc == [projectName |-> JString(""), commands |-> <<>>]

\* A file: absent, present but unreadable (a directory, or no read
\* permission: os.Stat succeeds, os.ReadFile fails), present with text that
\* is not JSON ("syntax"), or present with a JSON document.
FileAbsent == [kind |-> "absent", doc |-> EmptyDoc]
FileUnreadable == [kind |-> "unreadable", doc |-> EmptyDoc]
FileSyntax == [kind |-> "syntax", doc |-> EmptyDoc]
FileJSON(doc) == [kind |-> "json", doc |-> doc]

ErrNotExist == "open .project-commands.json: no such file or directory"
ErrRead == "read .project-commands.json: is a directory"
ErrSyntax == "invalid character 'x' looking for beginning of value"
ErrType == "json: cannot unmarshal number into Go struct field of type string"
ErrWrite == "open .project-commands.json: permission denied"
ErrNotGit == "not a git repository"
ErrCancelled == "config generation cancelled by user"

\* os.Stat(name): err == nil
Stat(f) == f.kind # "absent"

\* os.ReadFile(name)
ReadFile(f) ==
    [data |-> f,
     err |-> CASE f.kind = "absent" -> ErrNotExist
               [] f.kind = "unreadable" -> ErrRead
               [] OTHER -> NoErr]

\* A string field of the target struct: a JSON string is stored, any other
\* JSON value leaves the field at its zero value and is a type error.
DecodeString(v) == IF v.t = "string" THEN v.s ELSE ""

DecodeCommand(o) ==
    Command(DecodeString(o.name), DecodeString(o.command), DecodeString(o.description))

HasTypeError(doc) ==
    \/ doc.projectName.t # "string"
    \/ \E i \in 1..Len(doc.commands) :
          \/ doc.commands[i].name.t # "string"
          \/ doc.commands[i].command.t # "string"
          \/ doc.commands[i].description.t # "string"

\* json.Unmarshal(data, &config) on a zero Config.  The text is validated
\* first, so a syntax error stores nothing.  A type error skips the field
\* it occurs in, decoding goes on "as best it can" (the implementation
\* decodes every other field), and the first such error is returned with
\* the partly filled Config.
Unmarshal(data) ==
    IF data.kind = "syntax"
    THEN [config |-> ZeroConfig, err |-> ErrSyntax]
    ELSE [config |-> [ProjectName |-> DecodeString(data.doc.projectName),
                      Commands |-> [i \in 1..Len(data.doc.commands) |->
                                       DecodeCommand(data.doc.commands[i])]],
          err |-> IF HasTypeError(data.doc) THEN ErrType ELSE NoErr]

-----------------------------------------------------------------------------
(* Detectors.  A detector gets c = [config, log] and the directory and     *)
(* returns the set of values c can have afterwards: Go iterates over a map *)
(* in an unspecified order, so a detector that ranges over a map has one   *)
(* result per order.                                                       *)

\* the orders in which `range` can visit the keys S of a map
RangeOrders(S) ==
    {o \in [1..Cardinality(S) -> S] : \A i, j \in 1..Cardinality(S) : o[i] = o[j] => i = j}

Probe(c, event) == [c EXCEPT !.log = Append(@, event)]

AppendCommands(c, cmds) == [c EXCEPT !.config.Commands = @ \o cmds]

\* an npm entry named after the script's text
NpmCommandByText(name, script) ==
    Command("npm: " \o script, "npm run " \o name, "Run npm script: " \o script)

NpmCommand(name, script) ==
    Command("npm: " \o name, "npm run " \o name, "Run npm script: " \o script)

detectNodeCommands(c, d) ==
    LET c1 == Probe(c, "ReadFile package.json")
    IN  IF d.pkg.kind # "valid"
        THEN {c1}
        ELSE {AppendCommands(c1, [i \in 1..Len(o) |-> NpmCommand(o[i], d.pkg.scripts[o[i]])]) :
                 o \in RangeOrders(DOMAIN d.pkg.scripts)}

DockerGeneric ==
    << Command("Docker: Start All", "docker-compose up", "Start all Docker containers"),
       Command("Docker: Start All (Detached)", "docker-compose up -d",
               "Start all Docker containers in detached mode"),
       Command("Docker: Stop All", "docker-compose down", "Stop all Docker containers") >>

DockerService(serviceName) ==
    Command("Docker: Start " \o serviceName, "docker-compose up " \o serviceName,
            "Start the " \o serviceName \o " service")

\* the compose scanner adding the generic entries before it looks for the
\* services mapping
detectDockerCommandsGenericFirst(c, d) ==
    LET c1 == Probe(c, "Stat docker-compose.yml")
        c2 == IF d.yml.kind # "absent" THEN c1 ELSE Probe(c1, "Stat docker-compose.yaml")
        composeFile == CASE d.yml.kind # "absent" -> "docker-compose.yml"
                          [] d.yaml.kind # "absent" -> "docker-compose.yaml"
                          [] OTHER -> ""
        f == IF composeFile = "docker-compose.yml" THEN d.yml ELSE d.yaml
        c3 == Probe(c2, "ReadFile " \o composeFile)
    IN  IF composeFile = ""
        THEN {c2}
        ELSE IF f.kind \in {"unreadable", "malformed"}
        THEN {c3}
        ELSE IF f.kind = "noservices"
        THEN {AppendCommands(c3, DockerGeneric)}
        ELSE {AppendCommands(c3, DockerGeneric \o [i \in 1..Len(o) |-> DockerService(o[i])]) :
                 o \in RangeOrders(f.services)}

\* the compose scanner going on to docker-compose.yaml when it cannot use
\* docker-compose.yml
detectDockerCommandsFallback(c, d) ==
    LET c1 == Probe(c, "Stat docker-compose.yml")
        c2 == IF d.yml.kind = "valid" THEN c1 ELSE Probe(c1, "Stat docker-compose.yaml")
        composeFile == CASE d.yml.kind = "valid" -> "docker-compose.yml"
                          [] d.yaml.kind # "absent" -> "docker-compose.yaml"
                          [] OTHER -> ""
        f == IF composeFile = "docker-compose.yml" THEN d.yml ELSE d.yaml
        c3 == Probe(c2, "ReadFile " \o composeFile)
    IN  IF composeFile = ""
        THEN {c2}
        ELSE IF f.kind # "valid"
        THEN {c3}
        ELSE {AppendCommands(c3, DockerGeneric \o [i \in 1..Len(o) |-> DockerService(o[i])]) :
                 o \in RangeOrders(f.services)}

detectDockerCommands(c, d) ==
    LET c1 == Probe(c, "Stat docker-compose.yml")
        c2 == IF d.yml.kind # "absent" THEN c1 ELSE Probe(c1, "Stat docker-compose.yaml")
        composeFile == CASE d.yml.kind # "absent" -> "docker-compose.yml"
                          [] d.yaml.kind # "absent" -> "docker-compose.yaml"
                          [] OTHER -> ""
        f == IF composeFile = "docker-compose.yml" THEN d.yml ELSE d.yaml
        c3 == Probe(c2, "ReadFile " \o composeFile)
    IN  IF composeFile = ""
        THEN {c2}
        ELSE IF f.kind # "valid"
        THEN {c3}
        ELSE {AppendCommands(c3, DockerGeneric \o [i \in 1..Len(o) |-> DockerService(o[i])]) :
                 o \in RangeOrders(f.services)}

\* the Go entries with Test before Run
GoCommandsSwapped ==
    << Command("Go: Test", "go test ./...", "Run all tests"),
       Command("Go: Run", "go run .", "Run the Go application"),
       Command("Go: Build", "go build", "Build the Go application") >>

GoCommands ==
    << Command("Go: Run", "go run .", "Run the Go application"),
       Command("Go: Test", "go test ./...", "Run all tests"),
       Command("Go: Build", "go build", "Build the Go application") >>

\* go.mod is only looked up with os.Stat, never read
detectGoCommands(c, d) ==
    LET c1 == Probe(c, "Stat go.mod")
    IN  IF d.gomod.kind # "absent" THEN {AppendCommands(c1, GoCommands)} ELSE {c1}

-----------------------------------------------------------------------------
(* Catalog store *)

\* os.WriteFile can succeed, fail before the file is created, or fail after
\* it was created and truncated (a short write leaves text that is no JSON)
WriteOutcomes == {"ok", "open-failed", "short-write"}

\* saveConfig(config) when .project-commands.json does not exist
saveConfig(config, w) ==
    CASE w = "ok" -> [err |-> NoErr, file |-> FileJSON(MarshalIndent(config))]
      [] w = "open-failed" -> [err |-> ErrWrite, file |-> FileAbsent]
      [] OTHER -> [err |-> ErrWrite, file |-> FileSyntax]

\* GenerateSave without the test len(config.Commands) > 0
GenerateSaveAlways(c, file, w) ==
    LET s == saveConfig(c.config, w)
    IN  [err |-> s.err, file |-> s.file, config |-> c.config,
         log |-> Append(c.log, IF s.err = NoErr THEN "saveConfig" ELSE "saveConfig failed")]

\* What Generate does with the detected config: save it only if it has commands
GenerateSave(c, file, w) ==
    IF Len(c.config.Commands) > 0
    THEN LET s == saveConfig(c.config, w)
         IN  [err |-> s.err, file |-> s.file, config |-> c.config,
              log |-> Append(c.log, IF s.err = NoErr THEN "saveConfig" ELSE "saveConfig failed")]
    ELSE [err |-> NoErr, file |-> file, config |-> c.config, log |-> c.log]

\* the detectors called in the opposite order
DetectSwapped(c, d) ==
    UNION {UNION {detectNodeCommands(c2, d) : c2 \in detectDockerCommands(c1, d)} :
              c1 \in detectGoCommands(c, d)}

\* The three detectors in the order Generate calls them
Detect(c, d) ==
    UNION {UNION {detectGoCommands(c2, d) : c2 \in detectDockerCommands(c1, d)} :
              c1 \in detectNodeCommands(c, d)}

\* Generate without the early return for an existing file
GenerateNoStat(d, file, w, log0) ==
    {GenerateSave(c, file, w) :
        c \in Detect([config |-> [ProjectName |-> d.name, Commands |-> <<>>],
                      log |-> Append(log0, "Stat .project-commands.json")], d)}

\* ConfigGenerator.Generate(): the set of [err, file, config, log] it can
\* end with; config is its local variable `config` (the zero Config when it
\* returned before building one).  getRepoName() is d.name.
Generate(d, file, w, log0) ==
    LET log1 == Append(log0, "Stat .project-commands.json")
    IN  IF Stat(file)
        THEN {[err |-> NoErr, file |-> file, config |-> ZeroConfig, log |-> log1]}
        ELSE {GenerateSave(c, file, w) :
                 c \in Detect([config |-> [ProjectName |-> d.name, Commands |-> <<>>],
                               log |-> log1], d)}

\* ReadConfig returning a nil error whatever ReadFile and Unmarshal report
ReadConfigDropsError(file, log0) ==
    LET r == ReadFile(file)
        u == Unmarshal(r.data)
    IN  [config |-> IF r.err # NoErr THEN ZeroConfig ELSE u.config, err |-> NoErr,
         file |-> file, log |-> Append(log0, "ReadFile .project-commands.json")]

\* The tail both loadConfig functions share: read and parse the file
ReadConfig(file, log0) ==
    LET r == ReadFile(file)
        u == Unmarshal(r.data)
        log1 == Append(log0, "ReadFile .project-commands.json")
    IN  IF r.err # NoErr
        THEN [config |-> ZeroConfig, err |-> r.err, file |-> file, log |-> log1]
        ELSE [config |-> u.config, err |-> u.err, file |-> file, log |-> log1]

\* What a load leaves behind: r is what loadConfig returns (with the file
\* and the log), built the Config Generate built, line the line read at the
\* prompt (<<>> when there was no prompt)
Outcome(r, built, line) ==
    [config |-> r.config, err |-> r.err, file |-> r.file, log |-> r.log,
     generated |-> built, answer |-> line]

\* loadConfig() of src/main.go
loadConfig(d, file, w) ==
    {Outcome(IF g.err # NoErr
             THEN [config |-> ZeroConfig, err |-> g.err, file |-> g.file, log |-> g.log]
             ELSE ReadConfig(g.file, g.log), g.config, <<>>) :
        g \in Generate(d, file, w, <<>>)}

\* unicode.IsSpace on the characters used here
IsSpace(ch) == ch \in {" ", "\t", "\n", "\r"}

RECURSIVE TrimLeft(_)
TrimLeft(line) ==
    IF line # <<>> /\ IsSpace(Head(line)) THEN TrimLeft(Tail(line)) ELSE line

RECURSIVE TrimRight(_)
TrimRight(line) ==
    IF line # <<>> /\ IsSpace(line[Len(line)])
    THEN TrimRight(SubSeq(line, 1, Len(line) - 1))
    ELSE line

\* strings.TrimSpace, on a string given as its sequence of characters
TrimSpace(line) == TrimRight(TrimLeft(line))

LowerChar(ch) ==
    CASE ch = "Y" -> "y" [] ch = "E" -> "e" [] ch = "S" -> "s" [] ch = "N" -> "n"
      [] ch = "P" -> "p" [] OTHER -> ch

\* strings.ToLower
ToLower(line) == [i \in 1..Len(line) |-> LowerChar(line[i])]

\* promptUser taking every answer that begins with y as a yes
promptUserFirstLetter(line) ==
    LET response == ToLower(TrimSpace(line))
    IN  response # <<>> /\ response[1] = "y"

\* promptUser(message): line is what ReadString('\n') returned (the read
\* error is dropped, so at end of input line is what was read before it)
promptUser(line) ==
    LET response == ToLower(TrimSpace(line))
    IN  response = <<"y">> \/ response = <<"y", "e", "s">>

\* loadConfig() of src/unnamed/part_000
loadConfigPrompt(d, file, w, line) ==
    LET log1 == <<"Stat .git">>
        log2 == Append(log1, "Stat .project-commands.json")
        log3 == Append(log2, "promptUser")
    IN  IF ~d.git
        THEN {Outcome([config |-> ZeroConfig, err |-> ErrNotGit, file |-> file, log |-> log1],
                      ZeroConfig, <<>>)}
        ELSE IF Stat(file)
        THEN {Outcome(ReadConfig(file, log2), ZeroConfig, <<>>)}
        ELSE IF ~promptUser(line)
        THEN {Outcome([config |-> ZeroConfig, err |-> ErrCancelled, file |-> file,
                       log |-> log3], ZeroConfig, line)}
        ELSE {Outcome(IF g.err # NoErr
                      THEN [config |-> ZeroConfig, err |-> g.err, file |-> g.file,
                            log |-> g.log]
                      ELSE ReadConfig(g.file, g.log), g.config, line) :
                 g \in Generate(d, file, w, log3)}

\* initialModel(), given what loadConfig returned
initialModel(loaded) ==
    [config |-> loaded.config, cursor |-> 0, quitting |-> FALSE, err |-> loaded.err]

-----------------------------------------------------------------------------
(* Selection controller *)

CmdNil == [type |-> "nil", command |-> ""]
CmdQuit == [type |-> "quit", command |-> ""]
CmdExec(command) == [type |-> "exec", command |-> command]

\* the key names Update tells apart, one key it does not, and a message
\* that is no tea.KeyMsg
\* a message of command cmd is on its way to the event loop
Waiting(cmd) == BagIn(cmd, pending)

\* the run requests that are on their way to the event loop
WaitingExecs == {cmd \in BagToSet(pending) : cmd.type = "exec"}
NumWaitingExecs == BagCardinality(pending) - CopiesIn(CmdQuit, pending)

QuitKeys == {"ctrl+c", "q"}
UpKeys == {"up", "k"}
DownKeys == {"down", "j"}
EnterKeys == {"enter"}
OtherMsgs == {"x", "WindowSizeMsg"}

\* case "ctrl+c", "q"
UpdateQuit(mm) == [model |-> [mm EXCEPT !.quitting = TRUE], cmd |-> CmdQuit]

\* the up case wrapping from the first entry to the last
UpdateUpWraps(mm) ==
    [model |-> IF mm.cursor > 0 THEN [mm EXCEPT !.cursor = @ - 1]
               ELSE IF Len(mm.config.Commands) > 0
               THEN [mm EXCEPT !.cursor = Len(mm.config.Commands) - 1]
               ELSE mm,
     cmd |-> CmdNil]

\* case "up", "k"
UpdateUp(mm) ==
    [model |-> IF mm.cursor > 0 THEN [mm EXCEPT !.cursor = @ - 1] ELSE mm,
     cmd |-> CmdNil]

\* the down case with len(Commands)-1 computed in unsigned 8-bit arithmetic
UpdateDownUnsigned(mm) ==
    [model |-> IF mm.cursor < (Len(mm.config.Commands) - 1) % 256
               THEN [mm EXCEPT !.cursor = @ + 1] ELSE mm,
     cmd |-> CmdNil]

\* the down case without its guard
UpdateDownNoClamp(mm) == [model |-> [mm EXCEPT !.cursor = @ + 1], cmd |-> CmdNil]

\* case "down", "j"
UpdateDown(mm) ==
    [model |-> IF mm.cursor < Len(mm.config.Commands) - 1
               THEN [mm EXCEPT !.cursor = @ + 1] ELSE mm,
     cmd |-> CmdNil]

\* the enter case running the first entry instead of the selected one
UpdateEnterFirst(mm) ==
    IF mm.cursor < Len(mm.config.Commands)
    THEN [model |-> mm, cmd |-> CmdExec(mm.config.Commands[1].Command)]
    ELSE [model |-> mm, cmd |-> CmdNil]

\* case "enter"
UpdateEnter(mm) ==
    IF mm.cursor < Len(mm.config.Commands)
    THEN [model |-> mm, cmd |-> CmdExec(mm.config.Commands[mm.cursor + 1].Command)]
    ELSE [model |-> mm, cmd |-> CmdNil]

\* Model.Update(msg): the pair (model, cmd) it returns
Update(mm, msg) ==
    CASE msg \in QuitKeys -> UpdateQuit(mm)
      [] msg \in UpKeys -> UpdateUp(mm)
      [] msg \in DownKeys -> UpdateDown(mm)
      [] msg \in EnterKeys -> UpdateEnter(mm)
      [] OTHER -> [model |-> mm, cmd |-> CmdNil]

\* Model.View(): the render model.  Styling (colours, borders, icons) is
\* left out; the two variants differ in the farewell and the footer text.
View(mm, v) ==
    IF mm.err # NoErr
    THEN [screen |-> "error", text |-> "Error: " \o mm.err, header |-> "", items |-> <<>>]
    ELSE IF mm.quitting
    THEN [screen |-> "farewell", text |-> IF v = "plain" THEN "Bye!" ELSE "Goodbye!",
          header |-> "", items |-> <<>>]
    ELSE [screen |-> "menu",
          text |-> IF v = "plain" THEN "Press q to quit."
                   ELSE "up/down: navigate, enter: run, q: quit",
          header |-> mm.config.ProjectName,
          items |-> [i \in 1..Len(mm.config.Commands) |->
                        [isSelected |-> (mm.cursor = i - 1),
                         name |-> mm.config.Commands[i].Name,
                         description |-> mm.config.Commands[i].Description]]]

\* main() after p.Run() returned err: what it prints and the exit status
MsgCancelled == "Cancelled by user. Run 'distructions' again if you change your mind!"
MsgNotGit == "Not a git repository. Distructions only works in git repositories."

main(v, err) ==
    IF err = NoErr
    THEN [out |-> <<>>, status |-> 0]
    ELSE IF v = "prompt" /\ err = ErrCancelled
    THEN [out |-> <<MsgCancelled>>, status |-> 0]
    ELSE IF v = "prompt" /\ err = ErrNotGit
    THEN [out |-> <<MsgNotGit>>, status |-> 0]
    ELSE [out |-> <<"Error: " \o err>>, status |-> 1]

-----------------------------------------------------------------------------
(* The inputs: what the working directory can hold when the program starts *)

SeqsUpTo(S, n) == UNION {[1..k -> S] : k \in 0..n}

SubsetsUpTo(S, n) == {T \in SUBSET S : Cardinality(T) <= n}

\* package.json: absent, unreadable, not a JSON object with string scripts,
\* or valid with a map of script name -> script text (possibly empty)
ScriptNames == {"build", "test", "lint"}
ScriptTexts == {"tsc", "jest"}
Marker(kind) == [kind |-> kind, scripts |-> <<>>, services |-> {}]
Manifest(scripts) == [kind |-> "valid", scripts |-> scripts, services |-> {}]
Manifests ==
    {Marker("absent"), Marker("unreadable"), Marker("malformed")} \cup
    {Manifest(f) : f \in UNION {[S -> ScriptTexts] : S \in SubsetsUpTo(ScriptNames, MaxScripts)}}

\* a compose file: absent, unreadable, not YAML, YAML without a `services`
\* mapping, or valid with the set of its service names (possibly empty)
ServiceNames == {"web", "db", "cache"}
Compose(services) == [kind |-> "valid", scripts |-> <<>>, services |-> services]
ComposeFiles ==
    {Marker("absent"), Marker("unreadable"), Marker("malformed"), Marker("noservices")} \cup
    {Compose(S) : S \in SubsetsUpTo(ServiceNames, MaxServices)}

\* go.mod: absent, unreadable, not a module file, or valid
GoMods == {Marker("absent"), Marker("unreadable"), Marker("malformed"), Marker("valid")}

\* what getRepoName() returns: the last segment of the remote URL or the
\* directory's base name, which need not be valid UTF-8
RepoNames == {"distructions", "caf<e9>"}

Dir(git, name, pkg, yml, yaml, gomod) ==
    [git |-> git, name |-> name, pkg |-> pkg, yml |-> yml, yaml |-> yaml, gomod |-> gomod]

\* every directory: docker-compose.yaml is varied in full only where
\* docker-compose.yml is absent (it is looked at in no other case)
AllDirs ==
    {Dir(git, name, pkg, yml, yaml, gomod) :
        git \in BOOLEAN, name \in RepoNames, pkg \in Manifests,
        yml \in ComposeFiles, yaml \in ComposeFiles, gomod \in GoMods}

Dirs ==
    {d \in AllDirs : d.yml.kind # "absent" => d.yaml \in {Marker("absent"), Compose({"web"})}}

\* a few directories, for the runs that follow the program to its exit
SomeMarkers ==
    { <<Marker("absent"), Marker("absent"), Marker("absent"), Marker("absent")>>,
      <<Marker("absent"), Marker("absent"), Marker("absent"), Marker("valid")>>,
      <<Manifest([n \in {"build"} |-> "tsc"]), Compose({"web"}), Marker("absent"), Marker("valid")>>,
      <<Marker("malformed"), Marker("unreadable"), Compose({"web", "db"}), Marker("absent")>>,
      <<Manifest([n \in {"build", "test"} |-> "tsc"]), Marker("noservices"), Compose({"web"}),
        Marker("absent")>> }

SomeDirs ==
    {Dir(git, name, k[1], k[2], k[3], k[4]) :
        git \in BOOLEAN, name \in RepoNames, k \in SomeMarkers}

\* the directories of the loading runs: the name that is no UTF-8 goes
\* with a few marker combinations only (no detector looks at the name)
LoadDirs ==
    {d \in Dirs : d.name # "distructions" => <<d.pkg, d.yml, d.yaml, d.gomod>> \in SomeMarkers}

\* .project-commands.json when it exists at start: written by an earlier
\* run or by hand
ItemA == [name |-> JString("A"), command |-> JString("echo a"), description |-> JString("d1")]
ItemB == [name |-> JString("B"), command |-> JString("echo b"), description |-> JString("d2")]
ItemBad == [name |-> JString("C"), command |-> JString("echo c"), description |-> JNumber]
DocItems == {ItemA, ItemB, ItemBad}
DocLabels == {JString("proj"), JNumber}

PersistedFiles ==
    {FileUnreadable, FileSyntax} \cup
    {FileJSON([projectName |-> l, commands |-> cs]) :
        l \in DocLabels, cs \in SeqsUpTo(DocItems, MaxDocLen)}

\* the line the user types at the prompt (<<>>: end of input)
Lines ==
    { <<"y", "\n">>, <<"Y", "E", "S", "\n">>, <<" ", "y", "e", "s", " ", "\r", "\n">>,
      <<"n", "\n">>, <<"\n">>, <<>>, <<"y", "e", "p", "\n">> }

ExitStatuses == {0, 1}

\* the error p.Run() returns when the terminal cannot be set up
TeaErrors == {"could not open a new TTY: open /dev/tty: no such device or address"}

-----------------------------------------------------------------------------
(* The program *)

NoLast == [msg |-> "", from |-> 0, cmd |-> CmdNil]

Start ==
    /\ variant \in {"plain", "prompt"}
    /\ orig = persisted
    /\ m = ZeroModel
    /\ pc = "start"
    /\ log = <<>>
    /\ generated = ZeroConfig
    /\ answer = <<>>
    /\ last = NoLast
    /\ pending = EmptyBag
    /\ children = <<>>
    /\ childStatus = -1
    /\ runErr = NoErr
    /\ exitStatus = -1
    /\ stdout = <<>>

\* The markers are not looked at when the persisted file exists: one
\* directory with all kinds of marker, inside and outside a git repository
MarkedDirs ==
    {d \in SomeDirs : d.name = "distructions" /\ d.pkg.kind = "valid" /\ d.gomod.kind = "valid"}

Init ==
    /\ \/ persisted = FileAbsent /\ dir \in SomeDirs
       \/ persisted \in PersistedFiles /\ dir \in MarkedDirs
    /\ Start

Loaded(r) ==
    /\ m' = initialModel(r)
    /\ persisted' = r.file
    /\ log' = r.log
    /\ generated' = r.generated
    /\ answer' = r.answer
    /\ pc' = "running"
    /\ UNCHANGED <<variant, dir, orig, last, pending, children, childStatus, runErr, exitStatus,
                   stdout>>

\* src/main.go: tea.NewProgram(initialModel())
LoadPlain ==
    /\ pc = "start"
    /\ variant = "plain"
    /\ \E w \in WriteOutcomes : \E r \in loadConfig(dir, persisted, w) : Loaded(r)

\* src/unnamed/part_000: tea.NewProgram(initialModel())
LoadPrompt ==
    /\ pc = "start"
    /\ variant = "prompt"
    /\ \E w \in WriteOutcomes, line \in Lines :
          \E r \in loadConfigPrompt(dir, persisted, w, line) : Loaded(r)

\* The runtime hands one message to Update and passes the command it
\* returns to its command runner.  The runner calls each command in a
\* goroutine of its own and sends the message it yields (tea.Quit: QuitMsg,
\* tea.ExecProcess: the exec message) back to the event loop, so messages
\* that are already waiting can be handled before it arrives.  Messages are
\* handled one at a time, and only while the event loop runs
\* (pc = "running").  One waiting QuitMsg stands for any number of them.
Handle(msg) ==
    /\ LET u == Update(m, msg)
       IN  /\ u.cmd.type = "exec" => NumWaitingExecs < MaxPending
           /\ m' = u.model
           /\ last' = [msg |-> msg, from |-> m.cursor, cmd |-> u.cmd]
           /\ pending' = IF u.cmd = CmdNil \/ (u.cmd = CmdQuit /\ Waiting(CmdQuit))
                         THEN pending ELSE pending (+) SetToBag({u.cmd})
    /\ childStatus' = -1
    /\ pc' = "running"
    /\ UNCHANGED <<variant, dir, orig, persisted, log, generated, answer, children, runErr,
                   exitStatus, stdout>>

PressQuit ==
    /\ pc = "running"
    /\ \E k \in QuitKeys : Handle(k)

PressUp ==
    /\ pc = "running"
    /\ \E k \in UpKeys : Handle(k)

PressDown ==
    /\ pc = "running"
    /\ \E k \in DownKeys : Handle(k)

PressEnter ==
    /\ pc = "running"
    /\ \E k \in EnterKeys : Handle(k)

OtherMsg ==
    /\ pc = "running"
    /\ \E k \in OtherMsgs : Handle(k)


\* The event loop receives QuitMsg: p.Run() returns, and what else was
\* waiting is dropped.
QuitDelivered ==
    /\ pc = "running"
    /\ Waiting(CmdQuit)
    /\ pending' = EmptyBag
    /\ pc' = "returned"
    /\ UNCHANGED <<variant, dir, orig, persisted, m, log, generated, answer, last, children,
                   childStatus, runErr, exitStatus, stdout>>

\* an event loop that starts the child and goes on receiving messages
ExecDeliveredNoBlock ==
    /\ pc = "running"
    /\ \E cmd \in WaitingExecs :
          /\ children' = Append(children, cmd.command)
          /\ pending' = pending (-) SetToBag({cmd})
    /\ pc' = "running"
    /\ UNCHANGED <<variant, dir, orig, persisted, m, log, generated, answer, last,
                   childStatus, runErr, exitStatus, stdout>>

\* The event loop receives the exec message of tea.ExecProcess: it starts
\* the child and waits for it, receiving nothing until it has exited.
ExecDelivered ==
    /\ pc = "running"
    /\ \E cmd \in WaitingExecs :
          /\ children' = Append(children, cmd.command)
          /\ pending' = pending (-) SetToBag({cmd})
    /\ pc' = "exec"
    /\ UNCHANGED <<variant, dir, orig, persisted, m, log, generated, answer, last,
                   childStatus, runErr, exitStatus, stdout>>

\* The child started by tea.ExecProcess(cmd, nil) exits: the callback is
\* nil, so no message carries its status to Update.
ChildExit ==
    /\ pc = "exec"
    /\ children # <<>>
    /\ \E status \in ExitStatuses : childStatus' = status
    /\ children' = Tail(children)
    /\ pc' = "running"
    /\ UNCHANGED <<variant, dir, orig, persisted, m, log, generated, answer, last, pending,
                   runErr, exitStatus, stdout>>

\* p.Run() fails before any message was handled
RunFails ==
    /\ pc = "running"
    /\ last = NoLast
    /\ \E e \in TeaErrors : runErr' = e
    /\ pc' = "returned"
    /\ UNCHANGED <<variant, dir, orig, persisted, m, log, generated, answer, last, pending,
                   children, childStatus, exitStatus, stdout>>

\* main() after p.Run() returned
MainReturn ==
    /\ pc = "returned"
    /\ stdout' = main(variant, runErr).out
    /\ exitStatus' = main(variant, runErr).status
    /\ pc' = "exited"
    /\ UNCHANGED <<variant, dir, orig, persisted, m, log, generated, answer, last, pending,
                   children, childStatus, runErr>>

Next ==
    \/ LoadPlain
    \/ LoadPrompt
    \/ PressQuit
    \/ PressUp
    \/ PressDown
    \/ PressEnter
    \/ OtherMsg
    \/ QuitDelivered
    \/ ExecDelivered
    \/ ChildExit
    \/ RunFails
    \/ MainReturn

Spec == Init /\ [][Next]_vars

\* Loading alone, over every combination of markers.  src/main.go does not
\* look at .git, so it is started inside a git repository only.
InitLoad ==
    /\ \/ persisted = FileAbsent /\ dir \in LoadDirs
       \/ persisted \in PersistedFiles /\ dir \in SomeDirs
    /\ Start
    /\ variant = "plain" => dir.git

NextLoad ==
    \/ LoadPlain
    \/ LoadPrompt

SpecLoad == InitLoad /\ [][NextLoad]_vars

-----------------------------------------------------------------------------
(* Properties *)

NumCommands == Len(m.config.Commands)

\* a step in which Update handled a key of the set K and the event loop went on
KeyStep(K) == pc = "running" /\ pc' = "running" /\ last'.msg \in K

\* C1: once the controller is built over a non-empty catalog, the cursor is
\* always an index of the catalog: 0 <= cursor <= len(entries) - 1, whatever
\* keys were handled.
C1_CursorInRange ==
    (pc # "start" /\ NumCommands > 0) => (0 <= m.cursor /\ m.cursor <= NumCommands - 1)

\* C1 witness: a down key was handled at the last index of a catalog of
\* several entries, and the cursor is still the last index.
C1_Witness ==
    /\ pc = "running"
    /\ NumCommands > 1
    /\ last.msg \in DownKeys
    /\ last.from = NumCommands - 1
    /\ m.cursor = NumCommands - 1

\* C2 as stated, for a controller that loaded without error: up at cursor 0
\* and down at cursor len(entries) - 1 leave the cursor unchanged, in every
\* other case up decreases and down increases it by exactly 1; neither
\* changes quitting, err or the catalog.
C2_AsStated ==
    [][ /\ (KeyStep(UpKeys) /\ m.err = NoErr) =>
              /\ m'.cursor = IF m.cursor = 0 THEN 0 ELSE m.cursor - 1
              /\ m'.quitting = m.quitting /\ m'.err = m.err /\ m'.config = m.config
        /\ (KeyStep(DownKeys) /\ m.err = NoErr) =>
              /\ m'.cursor = IF m.cursor = NumCommands - 1 THEN m.cursor ELSE m.cursor + 1
              /\ m'.quitting = m.quitting /\ m'.err = m.err /\ m'.config = m.config
      ]_vars

\* C2 amended: up at cursor 0 leaves the cursor at 0; down leaves it
\* unchanged at cursor len(entries) - 1 and when the catalog is empty; in
\* every other case up decreases and down increases it by exactly 1;
\* neither changes quitting, err or the catalog.
C2_NoWrap ==
    [][ /\ KeyStep(UpKeys) =>
              /\ m'.cursor = IF m.cursor = 0 THEN 0 ELSE m.cursor - 1
              /\ m'.quitting = m.quitting /\ m'.err = m.err /\ m'.config = m.config
        /\ KeyStep(DownKeys) =>
              /\ m'.cursor = IF m.cursor = NumCommands - 1 \/ NumCommands = 0
                             THEN m.cursor ELSE m.cursor + 1
              /\ m'.quitting = m.quitting /\ m'.err = m.err /\ m'.config = m.config
      ]_vars

\* C2 witness: an up key was handled at cursor 0 of a catalog of several
\* entries and the cursor is 0.
C2_Witness ==
    /\ pc = "running"
    /\ NumCommands > 1
    /\ last.msg \in UpKeys
    /\ last.from = 0
    /\ m.cursor = 0

\* C3: a confirm key handled while the cursor indexes an entry emits one
\* run request, for the command of entries[cursor], and leaves the model
\* (cursor, catalog, quitting, err) unchanged; the child that is started is
\* the one of a run request; when the child exits, with whatever status,
\* the model is still unchanged and the loop runs again.
C3_ConfirmRunsSelected ==
    [][ /\ (KeyStep(EnterKeys) /\ m.cursor < NumCommands) =>
              /\ last'.cmd = CmdExec(m.config.Commands[m.cursor + 1].Command)
              /\ pending' = pending (+) SetToBag({last'.cmd})
              /\ children' = children
              /\ m' = m
        /\ (pc # "exec" /\ pc' = "exec") =>
              /\ \E cmd \in WaitingExecs :
                    /\ children' = <<cmd.command>>
                    /\ pending' = pending (-) SetToBag({cmd})
              /\ m' = m
        /\ (pc = "exec" /\ pc' # "exec") =>
              /\ pc' = "running"
              /\ children' = <<>>
              /\ m' = m
      ]_vars

\* C3 witness: the entry under a cursor other than 0 was run, its command
\* differs from the first entry's, the child failed and the loop runs again.
C3_Witness ==
    /\ pc = "running"
    /\ last.msg \in EnterKeys
    /\ m.cursor > 0
    /\ last.cmd = CmdExec(m.config.Commands[m.cursor + 1].Command)
    /\ m.config.Commands[m.cursor + 1].Command # m.config.Commands[1].Command
    /\ childStatus = 1
    /\ children = <<>>

\* the events of log that are calls of a detector
DetectorEvents ==
    {"ReadFile package.json", "Stat docker-compose.yml", "Stat docker-compose.yaml",
     "ReadFile docker-compose.yml", "ReadFile docker-compose.yaml", "Stat go.mod"}

DetectorsRan == \E i \in 1..Len(log) : log[i] \in DetectorEvents

Prompted == \E i \in 1..Len(log) : log[i] = "promptUser"

\* the load errors that are a failure to read or parse the persisted file
FatalLoadErrors == {ErrRead, ErrSyntax, ErrType}

\* C4: the program exits with status 0 when the user quits a menu that
\* loaded normally, and with a non-zero status when loading failed with a
\* read or parse error of the persisted file.
C4_ExitStatus ==
    pc = "exited" =>
        /\ (m.err = NoErr /\ m.quitting) => exitStatus = 0
        /\ m.err \in FatalLoadErrors => exitStatus # 0

\* no package.json, no compose file, no go.mod
NoMarkers ==
    /\ dir.pkg.kind = "absent"
    /\ dir.yml.kind = "absent"
    /\ dir.yaml.kind = "absent"
    /\ dir.gomod.kind = "absent"

\* C5: with no persisted file and no marker, Load (src/main.go) returns a
\* catalog with zero entries and no error, and no persisted file exists
\* afterwards.
C5_EmptyLoadNoError ==
    (pc # "start" /\ variant = "plain" /\ orig = FileAbsent /\ NoMarkers) =>
        /\ m.err = NoErr
        /\ m.config.Commands = <<>>
        /\ persisted = FileAbsent

\* a persisted file that is a JSON document all of whose fields are strings
WellFormed(f) ==
    /\ f.kind = "json"
    /\ f.doc.projectName.t = "string"
    /\ \A i \in 1..Len(f.doc.commands) :
          /\ f.doc.commands[i].name.t = "string"
          /\ f.doc.commands[i].command.t = "string"
          /\ f.doc.commands[i].description.t = "string"

\* C6: when a well-formed persisted file exists at start, Load (of
\* src/main.go, and of the prompting variant inside a git repository)
\* returns no error and exactly the label and the entries stored in the
\* file, in their order; no detector is called and the file is unchanged.
C6_LoadsPersisted ==
    (pc # "start" /\ WellFormed(orig) /\ (variant = "plain" \/ dir.git)) =>
        /\ m.err = NoErr
        /\ m.config.ProjectName = orig.doc.projectName.s
        /\ Len(m.config.Commands) = Len(orig.doc.commands)
        /\ \A i \in 1..Len(orig.doc.commands) :
              /\ m.config.Commands[i].Name = orig.doc.commands[i].name.s
              /\ m.config.Commands[i].Command = orig.doc.commands[i].command.s
              /\ m.config.Commands[i].Description = orig.doc.commands[i].description.s
        /\ ~DetectorsRan
        /\ persisted = orig

\* C6 witness: a well-formed file with two entries was loaded by
\* src/main.go in a directory whose three markers would all add entries.
C6_Witness ==
    /\ pc = "running"
    /\ variant = "plain"
    /\ WellFormed(orig)
    /\ Len(orig.doc.commands) = 2
    /\ dir.pkg.kind = "valid" /\ dir.pkg.scripts # <<>>
    /\ dir.yml.kind = "valid"
    /\ dir.gomod.kind = "valid"
    /\ NumCommands = 2

\* C7: when the persisted file exists at start but cannot be read or
\* parsed, Load returns an error, calls no detector and leaves the file as
\* it was (both variants).
C7_CorruptIsError ==
    (pc # "start" /\ orig.kind # "absent" /\ ~WellFormed(orig)) =>
        /\ m.err # NoErr
        /\ ~DetectorsRan
        /\ persisted = orig

\* C7 witness: the file held text that is no JSON, in a directory with
\* go.mod, and the load ended with the parse error.
C7_Witness ==
    /\ pc = "running"
    /\ orig = FileSyntax
    /\ dir.gomod.kind = "valid"
    /\ m.err = ErrSyntax
    /\ m.config = ZeroConfig

\* C8: a controller built from a failed load stays Erred: whatever keys it
\* handles it emits no run request, starts no child, and its render is the
\* error text alone.
C8_ErredNeverRuns ==
    (pc # "start" /\ m.err # NoErr) =>
        /\ last.cmd.type # "exec"
        /\ children = <<>>
        /\ View(m, variant).screen = "error"
        /\ View(m, variant).items = <<>>

\* C9: when the user declined generation, or the directory has no .git,
\* the program (whose p.Run() did not fail) exits with status 0 and has
\* printed the message that belongs to the condition.
C9_InformationalExit ==
    (pc = "exited" /\ runErr = NoErr) =>
        /\ m.err = ErrCancelled => (exitStatus = 0 /\ stdout = <<MsgCancelled>>)
        /\ m.err = ErrNotGit => (exitStatus = 0 /\ stdout = <<MsgNotGit>>)

\* the controller exists and loaded without error
RunningNoError == pc \in {"running", "exec"} /\ m.err = NoErr

\* C10 as stated: while the controller runs without a load error its
\* catalog is non-empty, and no step changes the catalog it was built with.
C10_AsStated ==
    /\ [](RunningNoError => NumCommands > 0)
    /\ [][pc # "start" => m'.config = m.config]_vars

SavedThisRun == \E i \in 1..Len(log) : log[i] = "saveConfig"

\* C10 amended: while the controller runs without a load error its catalog
\* has exactly the entries of the persisted file: at least one when this
\* run generated the file or the file it found lists at least one command,
\* none when the file it found lists no command; and no step changes the
\* catalog it was built with.
C10_CatalogFixed ==
    /\ [](RunningNoError =>
            /\ persisted.kind = "json"
            /\ NumCommands = Len(persisted.doc.commands)
            /\ SavedThisRun => NumCommands > 0
            /\ (orig.kind = "json" /\ Len(orig.doc.commands) > 0) => NumCommands > 0
            /\ (orig.kind = "json" /\ Len(orig.doc.commands) = 0) => NumCommands = 0)
    /\ [][pc # "start" => m'.config = m.config]_vars

\* C10 witness: the catalog was generated and saved in this run, loaded
\* without error, and the cursor was moved down and a command run.
C10_Witness ==
    /\ RunningNoError
    /\ SavedThisRun
    /\ NumCommands > 1
    /\ m.cursor > 0
    /\ last.msg \in EnterKeys
    /\ pc = "exec"

C12_QuitTerminal ==
    /\ [][(KeyStep(QuitKeys) /\ m.err = NoErr /\ ~m.quitting) =>
             /\ m'.quitting
             /\ last'.cmd = CmdQuit
             /\ BagIn(CmdQuit, pending')]_vars
    /\ [][(m.quitting /\ m.err = NoErr) =>
             /\ m'.quitting
             /\ m'.cursor = m.cursor
             /\ (pc = "running" /\ pc' = "running") => last'.cmd.type # "exec"]_vars

\* the entries s[a+1], ..., s[a+n]
Slice(s, a, n) == SubSeq(s, a + 1, a + n)

\* the elements of the sequence s
Range(s) == {s[i] : i \in 1..Len(s)}

\* log has the events e1, e2, e3, in this order
InOrder(e1, e2, e3) ==
    \E i, j, k \in 1..Len(log) :
        i < j /\ j < k /\ log[i] = e1 /\ log[j] = e2 /\ log[k] = e3

\* what each detector is expected to add for the markers of dir
NpmCount == IF dir.pkg.kind = "valid" THEN Cardinality(DOMAIN dir.pkg.scripts) ELSE 0
NpmEntries ==
    IF dir.pkg.kind = "valid"
    THEN {NpmCommand(n, dir.pkg.scripts[n]) : n \in DOMAIN dir.pkg.scripts} ELSE {}

\* the compose file the scanner settles on: the first candidate that exists
ChosenCompose == IF dir.yml.kind # "absent" THEN dir.yml ELSE dir.yaml
ComposeCount ==
    IF ChosenCompose.kind = "valid" THEN 3 + Cardinality(ChosenCompose.services) ELSE 0
ServiceEntries ==
    IF ChosenCompose.kind = "valid"
    THEN {DockerService(n) : n \in ChosenCompose.services} ELSE {}

\* The detectors ran in the order manifest, compose, module, and the
\* generated catalog is what they add, in that order, the module scanner
\* adding its three entries exactly if goAdds; no error other than a failed
\* write or a missing file comes out of the load.
DetectorsInOrder(goAdds) ==
    LET cmds == generated.Commands
        n == NpmCount
        k == ComposeCount
        g == IF goAdds THEN 3 ELSE 0
    IN  DetectorsRan =>
            /\ InOrder("ReadFile package.json", "Stat docker-compose.yml", "Stat go.mod")
            /\ Len(cmds) = n + k + g
            /\ Range(Slice(cmds, 0, n)) = NpmEntries
            /\ k > 0 => Slice(cmds, n, 3) = DockerGeneric
            /\ k > 0 => Range(Slice(cmds, n + 3, k - 3)) = ServiceEntries
            /\ g > 0 => Slice(cmds, n + k, 3) = GoCommands
            /\ m.err \in {NoErr, ErrWrite, ErrNotExist}

\* C13 as stated: generation runs the detectors in the order manifest,
\* compose, module; the catalog is the concatenation of their entries, and
\* a detector whose marker is absent, unreadable or malformed adds nothing
\* (the module scanner adds its entries only for a valid go.mod).
C13_AsStated == DetectorsInOrder(dir.gomod.kind = "valid")

\* C13 amended: as above, but the module scanner adds its three entries
\* whenever go.mod exists, readable and well-formed or not, and nothing
\* only when go.mod is absent.
C13_DetectorsInOrder == DetectorsInOrder(dir.gomod.kind # "absent")

\* C13 witness: package.json with two scripts, a compose file that is no
\* YAML and an unreadable go.mod gave two npm entries followed by the three
\* Go entries, without error.
C13_Witness ==
    /\ DetectorsRan
    /\ dir.pkg.kind = "valid" /\ NpmCount = 2
    /\ dir.yml.kind = "malformed"
    /\ dir.gomod.kind = "unreadable"
    /\ Len(generated.Commands) = 5
    /\ Slice(generated.Commands, 2, 3) = GoCommands
    /\ m.err = NoErr

\* go.mod exists and is the only marker
OnlyGoMod ==
    /\ dir.pkg.kind = "absent"
    /\ dir.yml.kind = "absent"
    /\ dir.yaml.kind = "absent"
    /\ dir.gomod.kind # "absent"

\* os.WriteFile failed in saveConfig
WriteFailed == \E i \in 1..Len(log) : log[i] = "saveConfig failed"

\* C14: with go.mod as the only marker and no persisted file, a load that
\* generates (src/main.go always; the prompting variant after a yes) and
\* whose write succeeds returns, without error, exactly the entries
\* "Go: Run", "Go: Test", "Go: Build" with the commands "go run .",
\* "go test ./...", "go build", in this order, and the persisted file now
\* holds exactly the loaded catalog.
C14_GoOnly ==
    (pc # "start" /\ orig = FileAbsent /\ OnlyGoMod /\ ~WriteFailed
        /\ (variant = "plain" \/ DetectorsRan)) =>
        /\ m.err = NoErr
        /\ Len(m.config.Commands) = 3
        /\ m.config.Commands[1].Name = "Go: Run" /\ m.config.Commands[1].Command = "go run ."
        /\ m.config.Commands[2].Name = "Go: Test"
        /\ m.config.Commands[2].Command = "go test ./..."
        /\ m.config.Commands[3].Name = "Go: Build" /\ m.config.Commands[3].Command = "go build"
        /\ persisted.kind = "json"
        /\ WellFormed(persisted)
        /\ Unmarshal(persisted) = [config |-> m.config, err |-> NoErr]

\* C14 witness: src/main.go ran in a directory with a valid go.mod and
\* nothing else, and the three Go entries are loaded and in the file.
C14_Witness ==
    /\ pc # "start"
    /\ variant = "plain"
    /\ orig = FileAbsent
    /\ OnlyGoMod
    /\ dir.gomod.kind = "valid"
    /\ m.config.Commands = GoCommands
    /\ Len(persisted.doc.commands) = 3
    /\ persisted.doc.commands[2].command = JString("go test ./...")

\* what the compose scanner appended: the generated catalog without the
\* npm entries before it and the Go entries after it
ComposePart ==
    LET before == NpmCount
        after == IF dir.gomod.kind # "absent" THEN 3 ELSE 0
    IN  Slice(generated.Commands, before, Len(generated.Commands) - before - after)

\* C15: when the compose file the scanner reads is parseable and its
\* services mapping has S names, the scanner appends exactly 3 + S entries:
\* start-all, start-all-detached, stop-all in this order, then exactly one
\* start entry per service name; with no compose file, or one without a
\* services mapping, it appends nothing.
C15_ComposeEntries ==
    DetectorsRan =>
        /\ ChosenCompose.kind = "valid" =>
              /\ Len(ComposePart) = 3 + Cardinality(ChosenCompose.services)
              /\ ComposePart[1] = Command("Docker: Start All", "docker-compose up",
                                          "Start all Docker containers")
              /\ ComposePart[2] = Command("Docker: Start All (Detached)", "docker-compose up -d",
                                          "Start all Docker containers in detached mode")
              /\ ComposePart[3] = Command("Docker: Stop All", "docker-compose down",
                                          "Stop all Docker containers")
              /\ \A n \in ChosenCompose.services :
                    Cardinality({i \in 4..Len(ComposePart) :
                                    ComposePart[i] = DockerService(n)}) = 1
        /\ ChosenCompose.kind \in {"absent", "noservices"} => ComposePart = <<>>

\* C15 witness: a compose file with two services, between a manifest and
\* go.mod, gave five compose entries; the last of them starts a service.
C15_Witness ==
    /\ DetectorsRan
    /\ dir.pkg.kind = "valid" /\ NpmCount > 0
    /\ dir.gomod.kind = "valid"
    /\ ChosenCompose.kind = "valid"
    /\ Cardinality(ChosenCompose.services) = 2
    /\ Len(ComposePart) = 5
    /\ ComposePart[5] = DockerService("web")

\* what the manifest scanner appended: the generated catalog without the
\* compose and Go entries after it
NpmPart ==
    LET after == ComposeCount + IF dir.gomod.kind # "absent" THEN 3 ELSE 0
    IN  Slice(generated.Commands, 0, Len(generated.Commands) - after)

\* C16: for a manifest with N script names the manifest scanner appends
\* exactly N entries; every script name has exactly one entry, named
\* "npm: <name>", with the command "npm run <name>" and the description
\* "Run npm script: <text>"; scripts with the same text keep their own
\* entries.
C16_NpmEntries ==
    (DetectorsRan /\ dir.pkg.kind = "valid") =>
        /\ Len(NpmPart) = Cardinality(DOMAIN dir.pkg.scripts)
        /\ \A n \in DOMAIN dir.pkg.scripts :
              /\ Cardinality({i \in 1..Len(NpmPart) : NpmPart[i].Name = "npm: " \o n}) = 1
              /\ \A i \in 1..Len(NpmPart) :
                    NpmPart[i].Name = "npm: " \o n =>
                        /\ NpmPart[i].Command = "npm run " \o n
                        /\ NpmPart[i].Description = "Run npm script: " \o dir.pkg.scripts[n]

\* C16 witness: two scripts with the same text gave two entries with the
\* same description and different names, "test" before "build".
C16_Witness ==
    /\ DetectorsRan
    /\ dir.pkg.kind = "valid"
    /\ DOMAIN dir.pkg.scripts = {"build", "test"}
    /\ dir.pkg.scripts["build"] = dir.pkg.scripts["test"]
    /\ Len(NpmPart) = 2
    /\ NpmPart[1].Name = "npm: test" /\ NpmPart[2].Name = "npm: build"
    /\ NpmPart[1].Description = NpmPart[2].Description

\* C17: round trip.  When Generate built a catalog with at least one entry
\* and saveConfig persisted it, the Load that follows returns no error and
\* the same project label and the same entries in the same order.
C17_RoundTrip ==
    (SavedThisRun /\ Len(generated.Commands) > 0) =>
        /\ m.err = NoErr
        /\ m.config.ProjectName = generated.ProjectName
        /\ m.config.Commands = generated.Commands

\* C18: a controller whose catalog has no entry never indexes into it:
\* whatever keys it handles the cursor is 0, no run request is emitted or
\* waiting, no child runs, and what it renders has no entry to select (the
\* error text, the farewell, or a menu without items).
C18_EmptyNeverIndexes ==
    (pc # "start" /\ NumCommands = 0) =>
        /\ m.cursor = 0
        /\ last.cmd.type # "exec"
        /\ WaitingExecs = {}
        /\ children = <<>>
        /\ View(m, variant).items = <<>>
        /\ View(m, variant).screen \in {"error", "farewell", "menu"}

\* C18 witness: a catalog file without commands was loaded without error,
\* and enter was handled with the cursor at 0.
C18_Witness ==
    /\ pc = "running"
    /\ NumCommands = 0
    /\ m.err = NoErr
    /\ last.msg \in EnterKeys
    /\ last.cmd = CmdNil
    /\ View(m, variant).screen = "menu"

\* the event e is in log
Logged(e) == \E i \in 1..Len(log) : log[i] = e

\* C19: the compose scanner uses the first candidate that exists, in the
\* order docker-compose.yml, docker-compose.yaml.  When docker-compose.yml
\* exists it is the file that is read, docker-compose.yaml is neither
\* looked up nor read, and if docker-compose.yml is unreadable, unparsable
\* or has no services mapping the scanner adds nothing, whatever
\* docker-compose.yaml holds; docker-compose.yaml is looked up only when
\* docker-compose.yml does not exist.
C19_FirstCandidateOnly ==
    DetectorsRan =>
        /\ Logged("Stat docker-compose.yml")
        /\ dir.yml.kind # "absent" =>
              /\ Logged("ReadFile docker-compose.yml")
              /\ ~Logged("Stat docker-compose.yaml")
              /\ ~Logged("ReadFile docker-compose.yaml")
              /\ dir.yml.kind \in {"unreadable", "malformed", "noservices"} =>
                    Len(generated.Commands) =
                        NpmCount + IF dir.gomod.kind # "absent" THEN 3 ELSE 0
              /\ dir.yml.kind = "valid" =>
                    \A i \in 1..Len(generated.Commands), n \in ServiceNames :
                        generated.Commands[i] = DockerService(n) => n \in dir.yml.services
        /\ dir.yml.kind = "absent" =>
              /\ Logged("Stat docker-compose.yaml")
              /\ ~Logged("ReadFile docker-compose.yml")
              /\ Logged("ReadFile docker-compose.yaml") <=> dir.yaml.kind # "absent"

\* C19 witness: docker-compose.yml is no YAML, docker-compose.yaml is valid
\* with a service, and the generated catalog has only the Go entries.
C19_Witness ==
    /\ DetectorsRan
    /\ dir.yml.kind = "malformed"
    /\ dir.yaml.kind = "valid" /\ dir.yaml.services = {"web"}
    /\ dir.pkg.kind = "absent"
    /\ dir.gomod.kind = "valid"
    /\ generated.Commands = GoCommands

\* the answers that are y or yes, whatever their case and the blanks and
\* line end around them
Affirmative ==
    { <<"y", "\n">>, <<"Y", "E", "S", "\n">>, <<" ", "y", "e", "s", " ", "\r", "\n">> }

\* the events of log that belong to generation
GenerationEvents == DetectorEvents \cup {"saveConfig", "saveConfig failed"}

\* C20: in the prompting variant, Load first looks for .git, then for the
\* persisted file, then asks, then generates.  Without .git nothing else
\* happens: no prompt, no detector, the file as it was.  The user is asked
\* exactly when .git exists and the persisted file does not; an answer
\* other than y or yes runs no detector and creates no file; and a
\* persisted file that existed at start is never changed.
C20_PromptOrder ==
    (pc # "start" /\ variant = "prompt") =>
        /\ log[1] = "Stat .git"
        /\ \A i \in 1..Len(log) :
              /\ log[i] = "Stat .project-commands.json" => i >= 2
              /\ log[i] = "promptUser" => (i = 3 /\ log[2] = "Stat .project-commands.json")
              /\ log[i] \in GenerationEvents => (i > 3 /\ log[3] = "promptUser")
        /\ ~dir.git =>
              /\ log = <<"Stat .git">>
              /\ answer = <<>>
              /\ persisted = orig
        /\ Prompted <=> (dir.git /\ orig = FileAbsent)
        /\ (Prompted /\ answer \notin Affirmative) =>
              /\ ~DetectorsRan
              /\ persisted = FileAbsent
        /\ orig # FileAbsent => (persisted = orig /\ ~DetectorsRan)

\* C20 witness: in a git repository with go.mod and no persisted file the
\* user answered "yep": nothing was detected, no file exists, and the load
\* ended with the cancellation error.
C20_Witness ==
    /\ pc # "start"
    /\ variant = "prompt"
    /\ dir.git
    /\ dir.gomod.kind = "valid"
    /\ orig = FileAbsent
    /\ answer = <<"y", "e", "p", "\n">>
    /\ log = <<"Stat .git", "Stat .project-commands.json", "promptUser">>
    /\ persisted = FileAbsent
    /\ m.err = ErrCancelled

=============================================================================
